---------------------------- MODULE Spec2Model ----------------------------
(***************************************************************************)
(* A model of sqlite-clone: the B+tree root node of storage/btree.rs and   *)
(* the SQL statement parser of sql_parser.rs, and the REPL of repl/.       *)
(*                                                                         *)
(* Spec       the tree: Btree::new, the HasInteriorNodes operations of     *)
(*            RootNode and the free functions find/insert/delete/split/    *)
(*            merge.                                                       *)
(* SpecParse  the parser: parser() applied to a statement text.            *)
(* SpecEq     two trees built side by side and compared with ==.           *)
(* SpecRepl   repl_loop: readline, respond, handle_metacommand.            *)
(***************************************************************************)
EXTENDS Integers, Sequences, FiniteSets, TLC

VARIABLES
    tree,     \* the Btree value: [interior_node_count, root]
    phase,    \* "none" before Btree::new has run, "live" after
    last,     \* the last tree operation: its arguments, its result, the root before it
    scen,     \* how many inserts of Scenario the history is, 0 when it is not a prefix
    inserted, \* the <<key, value>> pairs inserted so far, Btree::new's included
    uniq,     \* TRUE while no key has been inserted twice
    input,    \* the statement text handed to parser(), a sequence of characters
    src,      \* what the text was written from: table, column names, column values
    parsed,   \* the result of parser().parse(input), or NotParsed
    left,     \* a Btree value, the left side of ==, NoTree before it is built
    right,    \* a Btree value, the right side of ==, NoTree before it is built
    same,     \* the result of left == right for the trees as they are, or "none"
    rpc,      \* where repl_loop is: "idle", "readline", "respond" or "returned"
    rline,    \* the line readline returned last, a sequence of characters
    rev,      \* what the last step of repl_loop did
    rret      \* what repl_loop returned: "running", "Ok" or "Err"

treeVars == <<tree, phase, last, scen, inserted, uniq>>
parseVars == <<input, src, parsed>>
eqVars == <<left, right, same>>
replVars == <<rpc, rline, rev, rret>>
vars == <<treeVars, parseVars, eqVars, replVars>>

-----------------------------------------------------------------------------
(* Bounds *)

\* The largest number of entries the model lets the root grow to.
MaxEntries == 5

\* Keys, values and fanouts the operations are called with.
Keys == {5, 6, 10, 12, 20}
Values == {1, 2}
Fanouts == {2, 4}

\* The spec's concrete scenario: fanout 4, keys inserted in this order.
ScenarioCase == [fanout |-> 4, keys |-> <<10, 20, 5, 6, 12>>]
Scenario == ScenarioCase.keys
ScenarioFanout == ScenarioCase.fanout

-----------------------------------------------------------------------------
(* storage/btree.rs *)

\* InnerNodeInterior::new
InnerNodeInterior_new(key, value, children) ==
    [key |-> key, value |-> value, children |-> children]

\* An eq that compares the stored value as well, as a derived PartialEq would.
InnerNodeInterior_eq_with_value(a, b) == a.key = b.key /\ a.value = b.value

\* impl PartialEq for InnerNodeInterior: the key alone
InnerNodeInterior_eq(a, b) == a.key = b.key

\* impl Ord for InnerNodeInterior: the key alone
InnerNodeInterior_cmp(a, b) ==
    IF a.key < b.key THEN "Less" ELSE IF a.key = b.key THEN "Equal" ELSE "Greater"

\* slice::binary_search on a sorted Vec: Ok(pos) for a position holding an equal
\* element (any one of them when several are equal), else Err(pos) with pos the
\* number of elements that are Less than n.
binary_search(nodes, n) ==
    LET hits == {i \in 1..Len(nodes) : InnerNodeInterior_cmp(nodes[i], n) = "Equal"}
        less == {i \in 1..Len(nodes) : InnerNodeInterior_cmp(nodes[i], n) = "Less"}
    IN  IF hits # {}
        THEN {[tag |-> "Ok", pos |-> i] : i \in hits}
        ELSE {[tag |-> "Err", pos |-> Cardinality(less) + 1]}

\* Vec::insert(pos, n): n ends at position pos, the rest shifts right.
Vec_insert(nodes, pos, n) ==
    SubSeq(nodes, 1, pos - 1) \o <<n>> \o SubSeq(nodes, pos, Len(nodes))

\* RootNode::insert_interior_node: Ok(pos) | Err(pos) => insert(pos, n).
\* The set of vectors the call can leave.
insert_interior_node(nodes, n) ==
    {Vec_insert(nodes, r.pos, n) : r \in binary_search(nodes, n)}

\* RootNode::find_interior_node: takes no key, returns None.
find_interior_node(nodes) == [tag |-> "None"]

\* RootNode::delete_interior_node: the body is empty, the result is ().
delete_interior_node(nodes, key) == [nodes |-> nodes, result |-> [tag |-> "Unit"]]

\* Btree::new with the fanout dropped and the value taken from the key.
Btree_new_swapped(interior_node_count, key, value) ==
    {[interior_node_count |-> 0,
      root |-> [interior_nodes |-> ns]] :
        ns \in insert_interior_node(<<>>, InnerNodeInterior_new(key, key, <<>>))}

\* Btree::new: an empty root, one entry inserted into it.
Btree_new(interior_node_count, key, value) ==
    {[interior_node_count |-> interior_node_count,
      root |-> [interior_nodes |-> ns]] :
        ns \in insert_interior_node(<<>>, InnerNodeInterior_new(key, value, <<>>))}

-----------------------------------------------------------------------------
(* Observers used by the properties *)

NoTree == [interior_node_count |-> 0, root |-> [interior_nodes |-> <<>>]]
NoPrior == [valid |-> FALSE, key |-> 0, value |-> 0, before |-> <<>>]
NoOp == [op |-> "none", n |-> 0, key |-> 0, value |-> 0,
         result |-> [tag |-> "Unit"], before |-> <<>>, prior |-> NoPrior]

Nodes == tree.root.interior_nodes

KeysOf(nodes) == {nodes[i].key : i \in 1..Len(nodes)}

RECURSIVE Height(_)
\* Levels of the tree under a vector of entries: 1 when no entry has children.
Height(nodes) ==
    LET kids == UNION {{nodes[i].children[j] : j \in 1..Len(nodes[i].children)} :
                           i \in 1..Len(nodes)}
        hs == {IF c.kind = "Inner" THEN Height(c.interior_nodes) ELSE Height(<<c.entry>>) :
                   c \in kids}
    IN  IF hs = {} THEN 1 ELSE 1 + CHOOSE h \in hs : \A g \in hs : g <= h

Op(name, n, key, value, result, before, prior) ==
    [op |-> name, n |-> n, key |-> key, value |-> value,
     result |-> result, before |-> before, prior |-> prior]

\* Scenario progress after inserting key k.
ScenStep(k) ==
    IF scen >= 1 /\ scen < Len(Scenario) /\ tree.interior_node_count = ScenarioFanout
           /\ k = Scenario[scen + 1]
    THEN scen + 1 ELSE 0

-----------------------------------------------------------------------------
(* The tree's operations *)

NotParsed == [tag |-> "NotParsed"]
NoSrc == [kind |-> "none"]

TreeInit ==
    /\ tree = NoTree
    /\ phase = "none"
    /\ last = NoOp
    /\ scen = 0
    /\ inserted = {}
    /\ uniq = TRUE

ParseIdle ==
    /\ input = <<>>
    /\ src = NoSrc
    /\ parsed = NotParsed

EqIdle ==
    /\ left = NoTree
    /\ right = NoTree
    /\ same = "none"

NoEvent == [kind |-> "none"]

ReplIdle ==
    /\ rpc = "idle"
    /\ rline = <<>>
    /\ rev = NoEvent
    /\ rret = "running"

Init == TreeInit /\ ParseIdle /\ EqIdle /\ ReplIdle

\* let t = Btree::new(n, k, v)
New(n, k, v) ==
    /\ phase = "none"
    /\ tree' \in Btree_new(n, k, v)
    /\ phase' = "live"
    /\ last' = Op("new", n, k, v, [tag |-> "Unit"], <<>>, NoPrior)
    /\ scen' = IF n = ScenarioFanout /\ k = Scenario[1] THEN 1 ELSE 0
    /\ inserted' = {<<k, v>>}
    /\ uniq' = TRUE
    /\ UNCHANGED <<parseVars, eqVars, replVars>>

\* t.root.insert_interior_node(InnerNodeInterior::new(k, v, vec![]))
Insert(k, v) ==
    /\ phase = "live"
    /\ Len(Nodes) < MaxEntries
    /\ \E ns \in insert_interior_node(Nodes, InnerNodeInterior_new(k, v, <<>>)) :
           tree' = [tree EXCEPT !.root.interior_nodes = ns]
    /\ last' = Op("insert", 0, k, v, [tag |-> "Unit"], Nodes, NoPrior)
    /\ scen' = ScenStep(k)
    /\ inserted' = inserted \cup {<<k, v>>}
    /\ uniq' = (uniq /\ \A p \in inserted : p[1] # k)
    /\ UNCHANGED <<phase, parseVars, eqVars, replVars>>

\* t.root.find_interior_node(), called to look k up
Find(k) ==
    /\ phase = "live"
    /\ last' = Op("find", 0, k, 0, find_interior_node(Nodes), Nodes, NoPrior)
    /\ UNCHANGED <<tree, phase, scen, inserted, uniq, parseVars, eqVars, replVars>>

\* t.root.delete_interior_node(k)
Delete(k) ==
    /\ phase = "live"
    /\ LET r == delete_interior_node(Nodes, k)
       IN  /\ tree' = [tree EXCEPT !.root.interior_nodes = r.nodes]
           /\ last' = Op("delete", 0, k, 0, r.result, Nodes,
                         IF last.op = "insert" /\ last.key = k
                         THEN [valid |-> TRUE, key |-> last.key, value |-> last.value,
                               before |-> last.before]
                         ELSE NoPrior)
    /\ UNCHANGED <<phase, scen, inserted, uniq, parseVars, eqVars, replVars>>

\* The free functions find(), insert(), delete(), split(), merge(): empty bodies.
Stub(name) ==
    /\ phase = "live"
    /\ last' = Op(name, 0, 0, 0, [tag |-> "Unit"], Nodes, NoPrior)
    /\ UNCHANGED <<tree, phase, scen, inserted, uniq, parseVars, eqVars, replVars>>

find == Stub("find()")
insert == Stub("insert()")
delete == Stub("delete()")
split == Stub("split()")
merge == Stub("merge()")

Next ==
    \/ \E n \in Fanouts, k \in Keys, v \in Values : New(n, k, v)
    \/ \E k \in Keys, v \in Values : Insert(k, v)
    \/ \E k \in Keys : Find(k)
    \/ \E k \in Keys : Delete(k)
    \/ find
    \/ insert
    \/ delete
    \/ split
    \/ merge

Spec == Init /\ [][Next]_vars

-----------------------------------------------------------------------------
(* Properties of the tree *)

\* C1: with pairwise distinct inserted keys, a find for an inserted key returns
\* the value inserted with it, and a find for a key never inserted returns
\* NotFound (no value).
C1_FindReturnsInserted ==
    (last.op = "find" /\ uniq) =>
        /\ \A p \in inserted :
               p[1] = last.key => last.result = [tag |-> "Some", value |-> p[2]]
        /\ (\A p \in inserted : p[1] # last.key) => last.result.tag = "None"

\* C2: the entries of the root are strictly increasing by key, whatever was
\* inserted, repeated keys included.
C2_StrictlyIncreasing ==
    \A i, j \in 1..Len(Nodes) : i < j => Nodes[i].key < Nodes[j].key

\* C3: an insert of a key already in the tree is rejected with DuplicateKey and
\* leaves the tree as it was; no tree holds two entries with one key.
C3_DuplicateRejected ==
    /\ (last.op = "insert" /\ last.key \in KeysOf(last.before)) =>
           (last.result.tag = "DuplicateKey" /\ Nodes = last.before)
    /\ Cardinality(KeysOf(Nodes)) = Len(Nodes)

\* C4: no node holds more entries than the tree's fanout (interior_node_count).
C4_AtMostFanout ==
    phase = "live" => Len(Nodes) <= tree.interior_node_count

\* C5: with fanout 4, after inserting 10, 20, 5, 6, 12 the tree has height 2 where
\* it had height 1 before the 5th insert; and every insert into a root that is
\* full raises the height by exactly one.
C5_RootSplits ==
    /\ scen = Len(Scenario) => (Height(last.before) = 1 /\ Height(Nodes) = 2)
    /\ (last.op = "insert" /\ Len(last.before) >= tree.interior_node_count) =>
           Height(Nodes) = Height(last.before) + 1

\* C6: inserting a key that is not in the tree T and then deleting it gives back
\* the entries of T.
C6_InsertDeleteRestores ==
    (last.op = "delete" /\ last.prior.valid
         /\ last.key \notin KeysOf(last.prior.before)) =>
        Nodes = last.prior.before

\* C7: a delete of a key that is not in the tree returns NotFound and leaves the
\* entries as they were, in the same order.
C7_FailedDeleteNotFound ==
    (last.op = "delete" /\ last.key \notin KeysOf(last.before)) =>
        (last.result.tag = "NotFound" /\ Nodes = last.before)

\* C8: Btree::new(n, key, value) gives a tree with interior_node_count n and a
\* root of exactly one entry: the key, the value, no children.
C8_NewInit ==
    last.op = "new" =>
        /\ tree.interior_node_count = last.n
        /\ Nodes = <<[key |-> last.key, value |-> last.value, children |-> <<>>]>>

\* C8's case: Btree::new has just run with fanout 4, key 10 and value 2.
C8_Witness ==
    /\ last.op = "new" /\ last.n = 4 /\ last.key = 10 /\ last.value = 2
    /\ phase = "live"

-----------------------------------------------------------------------------
(* sql_parser.rs: texts are sequences of characters, positions count from 1 *)

Whitespace == {" ", "\t", "\n"}
Letter ==
    {"A", "B", "C", "D", "E", "F", "G", "H", "I", "J", "K", "L", "M", "N", "O", "P", "Q", "R", "S", "T", "U", "V", "W", "X", "Y", "Z",
     "a", "b", "c", "d", "e", "f", "g", "h", "i", "j", "k", "l", "m", "n", "o", "p", "q", "r", "s", "t", "u", "v", "w", "x", "y", "z"}
Digit == {"0", "1", "2", "3", "4", "5", "6", "7", "8", "9"}
DigitValue(c) == CHOOSE n \in 0..9 : <<"0", "1", "2", "3", "4", "5", "6", "7", "8", "9">>[n + 1] = c

\* u64::MAX, 18446744073709551615
U64MaxDigits == <<"1", "8", "4", "4", "6", "7", "4", "4", "0", "7", "3", "7", "0", "9", "5", "5", "1", "6", "1", "5">>

KwInsert == <<"I", "N", "S", "E", "R", "T">>
KwInto == <<"I", "N", "T", "O">>
KwValues == <<"V", "A", "L", "U", "E", "S">>
KwSelect == <<"S", "E", "L", "E", "C", "T">>
KwFrom == <<"F", "R", "O", "M">>
LitTrue == <<"T", "R", "U", "E">>
LitFalse == <<"F", "A", "L", "S", "E">>

\* A parser's outcome at a position: failure, or success with the position after
\* what it consumed and its output.
ParseFail(i) == [ok |-> FALSE, pos |-> i, out |-> <<>>]
ParseOk(j, out) == [ok |-> TRUE, pos |-> j, out |-> out]

\* a.or(b): b's outcome when a fails
Or(a, b) == IF a.ok THEN a ELSE b

\* p.to(v) / p.map(|_| v)
To(r, v) == IF r.ok THEN ParseOk(r.pos, v) ELSE r

RECURSIVE skip_ws(_, _)
\* The whitespace .padded() skips on either side of a parser.
skip_ws(s, i) ==
    IF i <= Len(s) /\ s[i] \in Whitespace THEN skip_ws(s, i + 1) ELSE i

\* p.padded(), after p has run behind the leading whitespace: the trailing
\* whitespace is skipped too.
Padded(s, r) == IF r.ok THEN ParseOk(skip_ws(s, r.pos), r.out) ELSE r

\* just(lit)
just(s, i, lit) ==
    IF i + Len(lit) - 1 <= Len(s) /\ SubSeq(s, i, i + Len(lit) - 1) = lit
    THEN ParseOk(i + Len(lit), lit)
    ELSE ParseFail(i)

RECURSIVE ident_end(_, _)
ident_end(s, i) ==
    IF i <= Len(s) /\ s[i] \in Letter \cup Digit \cup {"_"} THEN ident_end(s, i + 1) ELSE i

\* The slice s[i..j) as a parser's output.
Slice(s, i, j) == ParseOk(j, SubSeq(s, i, j - 1))

\* text::ident() and text::ascii::ident(): a letter or _, then letters, digits, _.
text_ident(s, i) ==
    IF i <= Len(s) /\ s[i] \in Letter \cup {"_"}
    THEN Slice(s, i, ident_end(s, i + 1))
    ELSE ParseFail(i)

\* text::keyword's test of the identifier it read.
keyword_check(r, kw) == IF r.ok /\ r.out = kw THEN r ELSE ParseFail(r.pos)

\* text::keyword(kw): an identifier that is exactly kw.
text_keyword(s, i, kw) == keyword_check(text_ident(s, i), kw)

\* text::ident().padded()
padded_ident(s, i) == Padded(s, text_ident(s, skip_ws(s, i)))

\* text::keyword(kw).padded()
padded_keyword(s, i, kw) == Padded(s, text_keyword(s, skip_ws(s, i), kw))

RECURSIVE digits_end(_, _)
digits_end(s, i) ==
    IF i <= Len(s) /\ s[i] \in Digit THEN digits_end(s, i + 1) ELSE i

RECURSIVE strip_zeros(_)
strip_zeros(ds) ==
    IF ds # <<>> /\ Head(ds) = "0" THEN strip_zeros(Tail(ds)) ELSE ds

RECURSIVE digits_leq(_, _)
\* a <= b for two digit strings of one length
digits_leq(a, b) ==
    IF a = <<>> THEN TRUE
    ELSE IF DigitValue(Head(a)) < DigitValue(Head(b)) THEN TRUE
    ELSE IF DigitValue(Head(a)) > DigitValue(Head(b)) THEN FALSE
    ELSE digits_leq(Tail(a), Tail(b))

\* A number's digits without leading zeros fit u64 or do not.
u64_range(num) ==
    IF Len(num) < Len(U64MaxDigits)
       \/ (Len(num) = Len(U64MaxDigits) /\ digits_leq(num, U64MaxDigits))
    THEN [ok |-> TRUE, num |-> IF num = <<>> THEN <<"0">> ELSE num]
    ELSE [ok |-> FALSE, num |-> <<>>]

\* n.parse::<u64>() on a string of digits: the number, written without leading
\* zeros, or an error when it is above u64::MAX.
parse_u64(ds) == u64_range(strip_zeros(ds))

\* bool_val
bool_val(s, i) ==
    Or(To(just(s, i, LitTrue), [kind |-> "Boolean", b |-> TRUE]),
       To(just(s, i, LitFalse), [kind |-> "Boolean", b |-> FALSE]))

\* int_val's try_map on the digits s[i..j)
int_try(j, n) ==
    IF n.ok THEN ParseOk(j, [kind |-> "Int", num |-> n.num]) ELSE ParseFail(j)

int_slice(s, i, j) ==
    IF j > i THEN int_try(j, parse_u64(SubSeq(s, i, j - 1))) ELSE ParseFail(i)

\* int_val
int_val(s, i) == int_slice(s, i, digits_end(s, i))

\* str_val after the opening quote and after the identifier
str_body(s, q) == IF q.ok THEN text_ident(s, q.pos) ELSE q

str_close(s, id) ==
    IF id.ok THEN To(just(s, id.pos, <<"\"">>), [kind |-> "String", s |-> id.out]) ELSE id

\* str_val
str_val(s, i) == str_close(s, str_body(s, just(s, i, <<"\"">>)))

\* column_value(): bool_val.or(int_val).or(str_val)
column_value(s, i) == Or(Or(bool_val(s, i), int_val(s, i)), str_val(s, i))

\* column_value().padded()
padded_column_value(s, i) == Padded(s, column_value(s, skip_ws(s, i)))

\* just(',').padded()
padded_comma(s, i) == Padded(s, just(s, skip_ws(s, i), <<",">>))

RECURSIVE commas_end(_, _)
commas_next(s, i, r) == IF r.ok THEN commas_end(s, r.pos) ELSE i

\* just(',').padded().repeated(): where the commas end
commas_end(s, i) == commas_next(s, i, padded_comma(s, i))

separator_first(s, i, r) ==
    IF r.ok THEN ParseOk(commas_end(s, r.pos), <<>>) ELSE ParseFail(i)

\* just(',').padded().repeated().at_least(1)
separator(s, i) == separator_first(s, i, padded_comma(s, i))

RECURSIVE csv_more(_, _, _)
csv_item(s, i, acc, item) ==
    IF item.ok THEN csv_more(s, item.pos, Append(acc, item.out)) ELSE ParseOk(i, acc)

csv_sep(s, i, acc, sep) ==
    IF sep.ok THEN csv_item(s, i, acc, padded_ident(s, sep.pos)) ELSE ParseOk(i, acc)

\* separated_by after an item: a separator and an item, as often as both parse;
\* a separator with no item after it is given back.
csv_more(s, i, acc) == csv_sep(s, i, acc, separator(s, i))

csv_first(s, i, first) ==
    IF first.ok THEN csv_more(s, first.pos, <<first.out>>) ELSE ParseOk(i, <<>>)

\* csv(): ident.padded().separated_by(...).collect(), no item at all included
csv(s, i) == csv_first(s, i, padded_ident(s, i))

RECURSIVE column_vals_more(_, _, _)
column_vals_item(s, i, acc, item) ==
    IF item.ok THEN column_vals_more(s, item.pos, Append(acc, item.out))
    ELSE ParseOk(i, acc)

column_vals_sep(s, i, acc, sep) ==
    IF sep.ok THEN column_vals_item(s, i, acc, padded_column_value(s, sep.pos))
    ELSE ParseOk(i, acc)

column_vals_more(s, i, acc) == column_vals_sep(s, i, acc, separator(s, i))

column_vals_first(s, i, first) ==
    IF first.ok THEN column_vals_more(s, first.pos, <<first.out>>) ELSE ParseOk(i, <<>>)

\* column_vals(): column_value().padded().separated_by(...).collect()
column_vals(s, i) == column_vals_first(s, i, padded_column_value(s, i))

\* The zip of insert_patch's closure: the i-th name with the i-th value, as far
\* as the shorter of the two goes.
zip_columns(col_names, col_values) ==
    [i \in 1..(IF Len(col_names) <= Len(col_values) THEN Len(col_names)
               ELSE Len(col_values)) |->
        [column_name |-> col_names[i], value |-> col_values[i]]]

\* insert_patch's closure with the arity test left out.
insert_patch_map_unchecked(table_name, col_names, col_values) ==
    [ok |-> TRUE,
     expr |-> [kind |-> "Insert", into_table |-> table_name,
               columns |-> zip_columns(col_names, col_values)]]

\* The closure of insert_patch's try_map.
insert_patch_map(table_name, col_names, col_values) ==
    IF Len(col_names) # Len(col_values)
    THEN [ok |-> FALSE, expr |-> "Column names has different arity to values"]
    ELSE [ok |-> TRUE,
          expr |-> [kind |-> "Insert", into_table |-> table_name,
                    columns |-> zip_columns(col_names, col_values)]]

\* A chain of .then / .then_ignore: st is the chain so far (ok, the position,
\* the outputs kept), r the next parser's outcome at st.pos.
Chain(i) == [ok |-> TRUE, pos |-> i, table |-> <<>>, names |-> <<>>, values |-> <<>>]
ThenIgnore(st, r) ==
    IF st.ok /\ r.ok THEN [st EXCEPT !.pos = r.pos] ELSE [st EXCEPT !.ok = FALSE]
Then(st, r, field) ==
    IF st.ok /\ r.ok THEN [st EXCEPT !.pos = r.pos, ![field] = r.out]
    ELSE [st EXCEPT !.ok = FALSE]

then_keyword(s, st, kw) == ThenIgnore(st, padded_keyword(s, st.pos, kw))
then_just(s, st, lit) == ThenIgnore(st, just(s, st.pos, lit))
then_padded(s, st) == ThenIgnore(st, ParseOk(skip_ws(s, st.pos), <<>>))
then_table(s, st) == Then(st, padded_ident(s, st.pos), "table")
then_csv(s, st) == Then(st, csv(s, st.pos), "names")
then_column_vals(s, st) == Then(st, column_vals(s, st.pos), "values")

\* insert_patch(), parser by parser in the order of the source
insert_patch_table(s, i) ==
    then_table(s, then_keyword(s, then_keyword(s, Chain(i), KwInsert), KwInto))
insert_patch_names(s, i) ==
    then_padded(s, then_just(s,
        then_csv(s, then_padded(s, then_just(s, insert_patch_table(s, i), <<"(">>))),
        <<")">>))
insert_patch_values(s, i) ==
    then_just(s, then_just(s,
        then_column_vals(s, then_padded(s, then_just(s,
            then_keyword(s, insert_patch_names(s, i), KwValues), <<"(">>))),
        <<")">>), <<";">>)

insert_patch_try_map(st, mapped) ==
    IF st.ok /\ mapped.ok THEN ParseOk(st.pos, mapped.expr) ELSE ParseFail(st.pos)

insert_patch_end(st) ==
    insert_patch_try_map(st, insert_patch_map(st.table, st.names, st.values))

\* insert_patch()
insert_patch(s, i) == insert_patch_end(insert_patch_values(s, i))

select_end(st) ==
    IF st.ok
    THEN ParseOk(st.pos, [kind |-> "Select", columns |-> st.names,
                          from_table |-> st.table])
    ELSE ParseFail(st.pos)

\* select()
select(s, i) ==
    select_end(then_just(s,
        then_table(s, then_keyword(s,
            then_csv(s, then_keyword(s, Chain(i), KwSelect)), KwFrom)),
        <<";">>))

\* parse(): the parser's outcome counts when only whitespace (.padded()) is left
parse_end(s, r) ==
    IF r.ok /\ skip_ws(s, r.pos) = Len(s) + 1
    THEN [tag |-> "Ok", expr |-> r.out]
    ELSE [tag |-> "Err"]

parser_at(s, i) == Or(select(s, i), insert_patch(s, i))

\* parser().parse(src).into_result(): select().or(insert_patch()).padded(), and
\* the whole text must be consumed.
parser(s) == parse_end(s, parser_at(s, skip_ws(s, 1)))

-----------------------------------------------------------------------------
(* The statements the parser is run on *)

\* The most columns, and the most values, a written statement has.
MaxCols == 2

TableNames == {<<"P", "e", "r", "s", "o", "n">>, <<"t">>}
ColumnNames == {<<"N", "a", "m", "e">>, <<"b", "_", "2">>}
ColumnValues ==
    {[kind |-> "Boolean", b |-> TRUE], [kind |-> "Boolean", b |-> FALSE],
     [kind |-> "Int", num |-> <<"2", "1">>], [kind |-> "String", s |-> <<"B", "o", "b">>]}

\* How a statement is laid out: the test's layout, one with whitespace wherever
\* the parser skips it and zero-padded numbers, one with none and doubled commas.
Layouts ==
    <<[pre |-> <<>>, gap |-> <<" ">>, open |-> <<"(">>, comma |-> <<",", " ">>, close |-> <<")">>,
       mid |-> <<" ">>, post |-> <<>>, zero |-> <<>>],
      [pre |-> <<"\n", " ", " ">>, gap |-> <<" ", "\t">>, open |-> <<" ", "(", " ">>, comma |-> <<" ", ",", "\n">>, close |-> <<" ", ")">>,
       mid |-> <<" ", " ">>, post |-> <<" ", "\n">>, zero |-> <<"0", "0">>],
      [pre |-> <<>>, gap |-> <<" ">>, open |-> <<"(">>, comma |-> <<",", ",">>, close |-> <<")">>,
       mid |-> <<>>, post |-> <<>>, zero |-> <<>>]>>

SeqsUpTo(S, n) == UNION {[1..k -> S] : k \in 0..n}

RECURSIVE Join(_, _)
Join(parts, sep) ==
    IF parts = <<>> THEN <<>>
    ELSE IF Len(parts) = 1 THEN parts[1]
    ELSE parts[1] \o sep \o Join(Tail(parts), sep)

\* The literal of a column value.
Literal(v, zero) ==
    IF v.kind = "Boolean" THEN (IF v.b THEN LitTrue ELSE LitFalse)
    ELSE IF v.kind = "Int" THEN zero \o v.num
    ELSE <<"\"">> \o v.s \o <<"\"">>

\* INSERT INTO table (names) VALUES (values); in layout l
Statement(table, names, values, l) ==
    l.pre \o KwInsert \o l.gap \o KwInto \o l.gap \o table \o l.open
      \o Join(names, l.comma) \o l.close \o l.mid \o KwValues \o l.mid \o l.open
      \o Join([i \in 1..Len(values) |-> Literal(values[i], l.zero)], l.comma)
      \o l.close \o <<";">> \o l.post

\* Texts that are not written from a table, names and values.
OtherTexts ==
    {<<"I", "N", "S", "E", "R", "T", " ", "I", "N", "T", "O", " ", "t", " ", "(", "a", ")", " ", "V", "A", "L", "U", "E", "S", " ", "(", "1", ")">>,
     <<"I", "N", "S", "E", "R", "T", " ", "I", "N", "T", "O", " ", "t", " ", "(", "a", ")", " ", "V", "A", "L", "U", "E", "S", " ", "(", "1", ")", " ", ";">>,
     <<"i", "n", "s", "e", "r", "t", " ", "i", "n", "t", "o", " ", "t", " ", "(", "a", ")", " ", "v", "a", "l", "u", "e", "s", " ", "(", "1", ")", ";">>,
     <<"I", "N", "S", "E", "R", "T", "I", "N", "T", "O", " ", "t", " ", "(", "a", ")", " ", "V", "A", "L", "U", "E", "S", " ", "(", "1", ")", ";">>,
     <<"I", "N", "S", "E", "R", "T", " ", "I", "N", "T", "O", " ", "t", " ", "(", "a", ")", " ", "V", "A", "L", "U", "E", "S", " ", "(", "'", "x", "'", ")", ";">>,
     <<"I", "N", "S", "E", "R", "T", " ", "I", "N", "T", "O", " ", "t", " ", "(", "a", ")", " ", "V", "A", "L", "U", "E", "S", " ", "(", "1", "8", "4", "4", "6", "7", "4", "4", "0", "7", "3", "7", "0", "9", "5", "5", "1", "6", "1", "6", ")", ";">>,
     <<"I", "N", "S", "E", "R", "T", " ", "I", "N", "T", "O", " ", "t", " ", "(", "a", ")", " ", "V", "A", "L", "U", "E", "S", " ", "(", "1", "8", "4", "4", "6", "7", "4", "4", "0", "7", "3", "7", "0", "9", "5", "5", "1", "6", "1", "5", ")", ";">>,
     <<"I", "N", "S", "E", "R", "T", " ", "I", "N", "T", "O", " ", "t", " ", "(", "a", ",", " ", ")", " ", "V", "A", "L", "U", "E", "S", " ", "(", "1", ")", ";">>,
     <<" ", " ", "S", "E", "L", "E", "C", "T", " ", " ", "n", "a", "m", "e", " ", ",", " ", "a", "g", "e", " ", "F", "R", "O", "M", " ", " ", " ", "u", "s", "e", "r", " ", " ", ";", " ", " ">>}

InitParse ==
    /\ TreeInit
    /\ EqIdle
    /\ ReplIdle
    /\ parsed = NotParsed
    /\ \/ \E table \in TableNames, names \in SeqsUpTo(ColumnNames, MaxCols),
             values \in SeqsUpTo(ColumnValues, MaxCols), l \in 1..Len(Layouts) :
             /\ src = [kind |-> "insert", table |-> table, names |-> names,
                       values |-> values]
             /\ input = Statement(table, names, values, Layouts[l])
       \/ \E text \in OtherTexts :
             /\ src = [kind |-> "text"]
             /\ input = text

\* parse_and_print(input): parser().parse(input).into_result()
Parse ==
    /\ parsed = NotParsed
    /\ parsed' = parser(input)
    /\ UNCHANGED <<treeVars, input, src, eqVars, replVars>>

NextParse == Parse

SpecParse == InitParse /\ [][NextParse]_vars

-----------------------------------------------------------------------------
(* Properties of the parser *)

-----------------------------------------------------------------------------
(* repl/metacommand.rs: texts are sequences of characters *)

CmdPing == <<"p", "i", "n", "g">>
CmdTables == <<".", "t", "a", "b", "l", "e", "s">>
CmdSchema == <<".", "s", "c", "h", "e", "m", "a">>
CmdIndexes == <<".", "i", "n", "d", "e", "x", "e", "s">>
CmdExit == <<".", "e", "x", "i", "t">>
AliasExit == <<"e", "x", "i", "t">>

\* Metacommand::from_str with the ".indexes" arm missing.
Metacommand_from_str_no_indexes(s) ==
    IF s = CmdTables THEN [ok |-> TRUE, val |-> "Tables"]
    ELSE IF s = CmdSchema THEN [ok |-> TRUE, val |-> "Schema"]
    ELSE [ok |-> FALSE, val |-> "Failed to parse metacommand"]

\* Metacommand::from_str
Metacommand_from_str(s) ==
    IF s = CmdTables THEN [ok |-> TRUE, val |-> "Tables"]
    ELSE IF s = CmdSchema THEN [ok |-> TRUE, val |-> "Schema"]
    ELSE IF s = CmdIndexes THEN [ok |-> TRUE, val |-> "Indexes"]
    ELSE [ok |-> FALSE, val |-> "Failed to parse metacommand"]

TextTables == <<"T", "a", "b", "l", "e", "s">>
TextSchema == <<"S", "c", "h", "e", "m", "a">>
TextIndexes == <<"I", "n", "d", "e", "x", "e", "s">>

\* #[derive(Display)] on Metacommand: a variant displays as its name.
Metacommand_to_string(m) ==
    IF m = "Tables" THEN TextTables
    ELSE IF m = "Schema" THEN TextSchema
    ELSE TextIndexes

\* handle_metacommand after from_str: ? passes the error on.
handle_metacommand_ok(r) ==
    IF r.ok THEN [ok |-> TRUE, val |-> Metacommand_to_string(r.val)] ELSE r

\* handle_metacommand
handle_metacommand(cmd) == handle_metacommand_ok(Metacommand_from_str(cmd))

-----------------------------------------------------------------------------
(* repl/mod.rs: shlex::split *)

ShlexSpace == {" ", "\t", "\n"}

RECURSIVE shlex_comment_end(_, _)
\* A comment runs to the end of its line, the newline included.
shlex_comment_end(s, i) ==
    IF i > Len(s) THEN i
    ELSE IF s[i] = "\n" THEN i + 1
    ELSE shlex_comment_end(s, i + 1)

RECURSIVE shlex_word_start(_, _)
\* Shlex::next before a word: whitespace and comments are skipped; 0 when the
\* text ends first.
shlex_word_start(s, i) ==
    IF i > Len(s) THEN 0
    ELSE IF s[i] \in ShlexSpace THEN shlex_word_start(s, i + 1)
    ELSE IF s[i] = "#" THEN shlex_word_start(s, shlex_comment_end(s, i + 1))
    ELSE i

ShlexErr == [ok |-> FALSE, pos |-> 0, word |-> <<>>]
ShlexWord(j, w) == [ok |-> TRUE, pos |-> j, word |-> w]

RECURSIVE shlex_parse_double(_, _, _)
\* Shlex::parse_double from the character after the opening quote; the
\* backquote, which a backslash also escapes, is in no text of this model.
shlex_parse_double(s, i, acc) ==
    IF i > Len(s) THEN ShlexErr
    ELSE IF s[i] = "\"" THEN ShlexWord(i + 1, acc)
    ELSE IF s[i] = "\\"
    THEN IF i + 1 > Len(s) THEN ShlexErr
         ELSE IF s[i + 1] \in {"$", "\"", "\\"}
         THEN shlex_parse_double(s, i + 2, Append(acc, s[i + 1]))
         ELSE IF s[i + 1] = "\n" THEN shlex_parse_double(s, i + 2, acc)
         ELSE shlex_parse_double(s, i + 2, acc \o <<"\\", s[i + 1]>>)
    ELSE shlex_parse_double(s, i + 1, Append(acc, s[i]))

RECURSIVE shlex_parse_single(_, _, _)
\* Shlex::parse_single from the character after the opening quote
shlex_parse_single(s, i, acc) ==
    IF i > Len(s) THEN ShlexErr
    ELSE IF s[i] = "'" THEN ShlexWord(i + 1, acc)
    ELSE shlex_parse_single(s, i + 1, Append(acc, s[i]))

RECURSIVE shlex_parse_word(_, _, _)
\* parse_word after a quoted part of the word
shlex_after_quote(s, r) ==
    IF r.ok THEN shlex_parse_word(s, r.pos, r.word) ELSE r

\* Shlex::parse_word from the character at i
shlex_parse_word(s, i, acc) ==
    IF i > Len(s) THEN ShlexWord(i, acc)
    ELSE IF s[i] = "\"" THEN shlex_after_quote(s, shlex_parse_double(s, i + 1, acc))
    ELSE IF s[i] = "'" THEN shlex_after_quote(s, shlex_parse_single(s, i + 1, acc))
    ELSE IF s[i] = "\\"
    THEN IF i + 1 > Len(s) THEN ShlexErr
         ELSE IF s[i + 1] = "\n" THEN shlex_parse_word(s, i + 2, acc)
         ELSE shlex_parse_word(s, i + 2, Append(acc, s[i + 1]))
    ELSE IF s[i] \in ShlexSpace THEN ShlexWord(i + 1, acc)
    ELSE shlex_parse_word(s, i + 1, Append(acc, s[i]))

RECURSIVE shlex_words(_, _, _)
shlex_next_word(s, acc, w) ==
    IF w.ok THEN shlex_words(s, w.pos, Append(acc, w.word))
    ELSE [some |-> FALSE, val |-> <<>>]

shlex_from(s, j, acc) ==
    IF j = 0 THEN [some |-> TRUE, val |-> acc]
    ELSE shlex_next_word(s, acc, shlex_parse_word(s, j, <<>>))

\* The words from position i on, after the words acc
shlex_words(s, i, acc) == shlex_from(s, shlex_word_start(s, i), acc)

\* shlex::split(line): the words, or None on an open quote or a final backslash
shlex_split(s) == shlex_words(s, 1, <<>>)

-----------------------------------------------------------------------------
(* repl/mod.rs: cli() and try_get_matches_from *)

RECURSIVE strip_slashes(_)
strip_slashes(a) ==
    IF a # <<>> /\ a[Len(a)] = "/" THEN strip_slashes(SubSeq(a, 1, Len(a) - 1)) ELSE a

RECURSIVE last_index(_, _, _)
\* The last position at or before i where a holds c, or 0
last_index(a, c, i) ==
    IF i = 0 THEN 0 ELSE IF a[i] = c THEN i ELSE last_index(a, c, i - 1)

\* Path::file_name for a path without . components: what follows the last /
file_name(a) == SubSeq(a, last_index(a, "/", Len(a)) + 1, Len(a))

\* The stem of a file name: up to its last dot, unless the name starts with it.
stem_of(name, dot) ==
    IF name \in {<<>>, <<".">>, <<".", ".">>} THEN [some |-> FALSE, val |-> <<>>]
    ELSE IF dot <= 1 THEN [some |-> TRUE, val |-> name]
    ELSE [some |-> TRUE, val |-> SubSeq(name, 1, dot - 1)]

file_stem_of(name) == stem_of(name, last_index(name, ".", Len(name)))

\* Path::new(argv0).file_stem(): multicall takes the applet's name from it
file_stem(a) == file_stem_of(file_name(strip_slashes(a)))

\* cli(): the subcommand a name or alias stands for
cli_find_subcommand(name) ==
    IF name \in {CmdPing, CmdTables, CmdSchema, CmdIndexes, CmdExit}
    THEN [some |-> TRUE, val |-> name]
    ELSE IF name = AliasExit THEN [some |-> TRUE, val |-> CmdExit]
    ELSE [some |-> FALSE, val |-> <<>>]

\* What may follow an applet that takes no arguments: nothing, or a lone "--"
cli_no_arguments(rest) == rest = <<>> \/ rest = <<<<"-", "-">>>>

cli_applet(found, rest) ==
    IF found.some /\ cli_no_arguments(rest)
    THEN [ok |-> TRUE, val |-> found.val]
    ELSE [ok |-> FALSE, val |-> <<>>]

\* The parse of the arguments from the applet's name on: a missing or unknown
\* name (the built-in help included, which ends in the DisplayHelp error) and
\* any argument or flag after the name are errors.
cli_parse(a) ==
    IF a = <<>> THEN [ok |-> FALSE, val |-> <<>>]
    ELSE cli_applet(cli_find_subcommand(a[1]), Tail(a))

cli_argv0(stem, rest) ==
    IF stem.some THEN cli_parse(<<stem.val>> \o rest) ELSE cli_parse(rest)

\* cli().try_get_matches_from(args), then matches.subcommand()'s name
cli_try_get_matches_from(args) ==
    IF args = <<>> THEN [ok |-> FALSE, val |-> <<>>]
    ELSE cli_argv0(file_stem(args[1]), Tail(args))

-----------------------------------------------------------------------------
(* repl/mod.rs: respond and repl_loop *)

\* The most writes and flushes of stdout one branch of respond makes.
RespondWrites == 3

\* The lines read_line can return; the empty text is the end of the input.
Lines ==
    {<<>>,
     <<"\n">>,
     <<" ", " ", "\t", "\n">>,
     <<"p", "i", "n", "g", "\n">>,
     <<".", "t", "a", "b", "l", "e", "s", "\n">>,
     <<".", "s", "c", "h", "e", "m", "a", "\n">>,
     <<".", "i", "n", "d", "e", "x", "e", "s", "\n">>,
     <<".", "e", "x", "i", "t", "\n">>,
     <<"e", "x", "i", "t", "\n">>,
     <<" ", " ", "e", "x", "i", "t", " ", " ", "\n">>,
     <<"h", "e", "l", "p", "\n">>,
     <<".", "f", "o", "o", "\n">>,
     <<"f", "o", "o", "\n">>,
     <<"t", "a", "b", "l", "e", "s", "\n">>,
     <<".", "T", "a", "b", "l", "e", "s", "\n">>,
     <<".", "t", "a", "b", "l", "e", "s", " ", "x", "\n">>,
     <<"\"", "p", "i", "n", "g", "\n">>,
     <<"'", ".", "s", "c", "h", "e", "m", "a", "'", "\n">>,
     <<"b", "i", "n", "/", ".", "i", "n", "d", "e", "x", "e", "s", "\n">>,
     <<".", "e", "x", "i", "t", ".", "b", "a", "k", "\n">>,
     <<"p", "i", "n", "g", " ", "-", "-", "h", "e", "l", "p", "\n">>,
     <<".", "e", "x", "i", "t", " ", "-", "-", "\n">>,
     <<"#", " ", "n", "o", "t", "e", "\n">>,
     <<".", "s", "c", "h", "e", "m", "a", "\\", "\n">>,
     <<"e", "x", "i", "t", ".", "t", "x", "t", "\n">>,
     <<"/", "u", "s", "r", "/", "b", "i", "n", "/", "p", "i", "n", "g", "\n">>,
     <<"\"", "e", "x", "\"", "i", "t", "\n">>,
     <<".", "t", "a", "b", "l", "e", "s", " ", "#", " ", "a", "l", "l", "\n">>,
     <<"p", "i", "n", "g", " ", "p", "o", "n", "g", "\n">>}

RECURSIVE trim_end(_)
trim_end(s) ==
    IF s # <<>> /\ s[Len(s)] \in Whitespace THEN trim_end(SubSeq(s, 1, Len(s) - 1)) ELSE s

\* str::trim
trim(s) == trim_end(SubSeq(s, skip_ws(s, 1), Len(s)))

RespondOk(quit, cmd, meta) ==
    [tag |-> "Ok", quit |-> quit, cmd |-> cmd, meta |-> meta, io |-> FALSE]
RespondErr(cmd, meta, io) ==
    [tag |-> "Err", quit |-> FALSE, cmd |-> cmd, meta |-> meta, io |-> io]
NotCalled == [ok |-> FALSE, val |-> "not called"]

\* The metacommand branch: a write, handle_metacommand(cmd)?, a write, a flush;
\* fail is the stdout call that fails, 0 for none.
respond_metacommand(cmd, fail, res) ==
    IF fail = 1 THEN RespondErr(cmd, NotCalled, TRUE)
    ELSE IF ~res.ok THEN RespondErr(cmd, res, FALSE)
    ELSE IF fail \in {2, 3} THEN RespondErr(cmd, res, TRUE)
    ELSE RespondOk(FALSE, cmd, res)

\* respond's match with the ping arm returning Ok(true).
respond_subcommand_ping_quits(cmd, fail) ==
    IF cmd = CmdPing
    THEN IF fail \in {1, 2} THEN RespondErr(cmd, NotCalled, TRUE)
         ELSE RespondOk(TRUE, cmd, NotCalled)
    ELSE IF cmd = CmdExit
    THEN IF fail \in {1, 2} THEN RespondErr(cmd, NotCalled, TRUE)
         ELSE RespondOk(TRUE, cmd, NotCalled)
    ELSE IF cmd[1] = "."
    THEN respond_metacommand(cmd, fail, handle_metacommand(cmd))
    ELSE [tag |-> "Panic", quit |-> FALSE, cmd |-> cmd, meta |-> NotCalled, io |-> FALSE]

\* respond's match on matches.subcommand(): "ping", ".exit", a name starting
\* with '.', any other name (unimplemented!).
respond_subcommand(cmd, fail) ==
    IF cmd = CmdPing
    THEN IF fail \in {1, 2} THEN RespondErr(cmd, NotCalled, TRUE)
         ELSE RespondOk(FALSE, cmd, NotCalled)
    ELSE IF cmd = CmdExit
    THEN IF fail \in {1, 2} THEN RespondErr(cmd, NotCalled, TRUE)
         ELSE RespondOk(TRUE, cmd, NotCalled)
    ELSE IF cmd[1] = "."
    THEN respond_metacommand(cmd, fail, handle_metacommand(cmd))
    ELSE [tag |-> "Panic", quit |-> FALSE, cmd |-> cmd, meta |-> NotCalled, io |-> FALSE]

respond_matches(m, fail) ==
    IF m.ok THEN respond_subcommand(m.val, fail) ELSE RespondErr(<<>>, NotCalled, FALSE)

respond_args(args, fail) ==
    IF args.some THEN respond_matches(cli_try_get_matches_from(args.val), fail)
    ELSE RespondErr(<<>>, NotCalled, FALSE)

\* respond(line)
respond(line, fail) == respond_args(shlex_split(line), fail)

InitRepl ==
    /\ TreeInit
    /\ ParseIdle
    /\ EqIdle
    /\ rpc = "readline"
    /\ rline = <<>>
    /\ rev = NoEvent
    /\ rret = "running"

\* readline()?: the prompt is written and flushed and a line is read; a failure
\* of any of the three returns from repl_loop.
Readline ==
    /\ rpc = "readline"
    /\ \/ \E l \in Lines :
             /\ rline' = l
             /\ rpc' = "respond"
             /\ rev' = [kind |-> "readline", ioerr |-> FALSE]
             /\ rret' = rret
       \/ /\ rpc' = "returned"
          /\ rret' = "Err"
          /\ rev' = [kind |-> "readline", ioerr |-> TRUE]
          /\ rline' = rline
    /\ UNCHANGED <<treeVars, parseVars, eqVars>>

\* The loop's body on an empty line: continue.
EmptyLine ==
    /\ rpc = "respond"
    /\ trim(rline) = <<>>
    /\ rpc' = "readline"
    /\ rev' = [kind |-> "empty", ioerr |-> FALSE]
    /\ UNCHANGED <<rline, rret, treeVars, parseVars, eqVars>>

\* What the loop does with respond's result; efail says the write or the flush
\* of the error fails.
loop_after(r, efail) ==
    IF r.tag = "Panic" THEN [pc |-> "returned", ret |-> "Panic", ioerr |-> FALSE]
    ELSE IF r.tag = "Ok"
    THEN IF r.quit THEN [pc |-> "returned", ret |-> "Ok", ioerr |-> FALSE]
         ELSE [pc |-> "readline", ret |-> "running", ioerr |-> FALSE]
    ELSE IF efail THEN [pc |-> "returned", ret |-> "Err", ioerr |-> TRUE]
    ELSE [pc |-> "readline", ret |-> "running", ioerr |-> FALSE]

RespondStep(r, efail, n) ==
    /\ rpc' = n.pc
    /\ rret' = n.ret
    /\ rev' = [kind |-> "respond", ioerr |-> n.ioerr, result |-> r,
               line |-> trim(rline)]

\* The loop's body on any other line: match respond(line).
Respond ==
    /\ rpc = "respond"
    /\ trim(rline) # <<>>
    /\ \E fail \in 0..RespondWrites, efail \in BOOLEAN :
           RespondStep(respond(trim(rline), fail), efail,
                       loop_after(respond(trim(rline), fail), efail))
    /\ UNCHANGED <<rline, treeVars, parseVars, eqVars>>

NextRepl == Readline \/ EmptyLine \/ Respond

SpecRepl == InitRepl /\ [][NextRepl]_vars

-----------------------------------------------------------------------------
(* Claims about the REPL, checked under SpecRepl *)

\* The words respond's split made of the last line, and the line itself
TypedStrings ==
    IF rev.kind = "respond"
    THEN {rev.line} \cup {shlex_split(rev.line).val[i] :
                             i \in 1..Len(shlex_split(rev.line).val)}
    ELSE {}

\* C11: every dot-command the command table accepts, other than .exit, is
\* .tables, .schema or .indexes; handle_metacommand returns Ok with the text
\* Tables, Schema and Indexes for them and an error for every other string; so
\* in the metacommand branch respond fails only when a write or flush fails,
\* never at handle_metacommand.
C11_MetacommandsAccepted ==
    /\ \A w \in TypedStrings :
           /\ w = CmdTables => handle_metacommand(w) = [ok |-> TRUE, val |-> TextTables]
           /\ w = CmdSchema => handle_metacommand(w) = [ok |-> TRUE, val |-> TextSchema]
           /\ w = CmdIndexes => handle_metacommand(w) = [ok |-> TRUE, val |-> TextIndexes]
           /\ w \notin {CmdTables, CmdSchema, CmdIndexes} => ~handle_metacommand(w).ok
    /\ (/\ rev.kind = "respond"
        /\ rev.result.cmd # <<>>
        /\ rev.result.cmd[1] = "."
        /\ rev.result.cmd # CmdExit)
       => /\ rev.result.cmd \in {CmdTables, CmdSchema, CmdIndexes}
          /\ rev.result.meta # NotCalled => rev.result.meta.ok
          /\ rev.result.tag = "Err" => rev.result.io
          /\ rev.result.tag # "Panic"

\* A line that names .indexes by a path went through the metacommand branch
\* and gave Indexes.
C11_Witness ==
    /\ rev.kind = "respond"
    /\ rev.line # CmdIndexes
    /\ rev.result.tag = "Ok"
    /\ rev.result.cmd = CmdIndexes
    /\ rev.result.meta = [ok |-> TRUE, val |-> TextIndexes]

\* C12: repl_loop returns only after a line the command table takes as .exit
\* (by its name or its alias exit) or after an I/O error of a read or a write;
\* after every other line (an empty one, ping, a metacommand, a line respond
\* rejects) the loop is still running, at the next prompt and read.
C12_ReturnsOnlyOnExitOrIoError ==
    /\ rpc = "returned"
       => \/ /\ rret = "Ok"
             /\ rev.kind = "respond"
             /\ rev.result.tag = "Ok"
             /\ rev.result.cmd = CmdExit
          \/ /\ rret = "Err"
             /\ rev.ioerr
    /\ rev.kind = "empty" => rpc = "readline" /\ rret = "running"
    /\ (/\ rev.kind = "respond"
        /\ ~rev.ioerr
        /\ ~(rev.result.tag = "Ok" /\ rev.result.cmd = CmdExit))
       => rpc = "readline" /\ rret = "running"
    /\ rpc = "readline" => ENABLED Readline

\* The loop has returned Ok after the alias exit, typed with blanks around it.
C12_Witness ==
    /\ rpc = "returned"
    /\ rret = "Ok"
    /\ rev.kind = "respond"
    /\ rev.line = AliasExit
    /\ rline # rev.line

-----------------------------------------------------------------------------
(* storage/btree.rs: == on entries, root nodes and trees *)

\* The most entries a compared root holds.
MaxEqEntries == 2

EqKeys == {5, 6}

\* A child of an entry: NonRootNode::Leaf around an entry without children
LeafChild(k, v) == [kind |-> "Leaf", entry |-> InnerNodeInterior_new(k, v, <<>>)]

\* The value and children an entry is built with
EqPayloads ==
    {[value |-> 1, children |-> <<>>],
     [value |-> 2, children |-> <<>>],
     [value |-> 1, children |-> <<LeafChild(5, 2)>>]}

\* Vec's PartialEq: equal lengths and equal elements, by the elements' eq
Vec_eq(a, b) ==
    /\ Len(a) = Len(b)
    /\ \A i \in 1..Len(a) : InnerNodeInterior_eq(a[i], b[i])

\* #[derive(PartialEq)] on RootNode: its one field
RootNode_eq(a, b) == Vec_eq(a.interior_nodes, b.interior_nodes)

\* #[derive(PartialEq)] on Btree: both fields
Btree_eq(a, b) ==
    /\ a.interior_node_count = b.interior_node_count
    /\ RootNode_eq(a.root, b.root)

InitEq ==
    /\ TreeInit
    /\ ParseIdle
    /\ ReplIdle
    /\ \E n \in Fanouts, k \in EqKeys, v \in Values : left \in Btree_new(n, k, v)
    /\ \E n \in Fanouts, k \in EqKeys, v \in Values : right \in Btree_new(n, k, v)
    /\ same = "none"

WithRoot(t, ns) == [t EXCEPT !.root.interior_nodes = ns]

\* left.root.insert_interior_node(InnerNodeInterior::new(k, value, children))
InsertLeft(k, p) ==
    /\ Len(left.root.interior_nodes) < MaxEqEntries
    /\ \E ns \in insert_interior_node(left.root.interior_nodes,
                     InnerNodeInterior_new(k, p.value, p.children)) :
           left' = WithRoot(left, ns)
    /\ same' = "none"
    /\ UNCHANGED <<right, treeVars, parseVars, replVars>>

\* right.root.insert_interior_node(InnerNodeInterior::new(k, value, children))
InsertRight(k, p) ==
    /\ Len(right.root.interior_nodes) < MaxEqEntries
    /\ \E ns \in insert_interior_node(right.root.interior_nodes,
                     InnerNodeInterior_new(k, p.value, p.children)) :
           right' = WithRoot(right, ns)
    /\ same' = "none"
    /\ UNCHANGED <<left, treeVars, parseVars, replVars>>

\* left == right
Compare ==
    /\ same = "none"
    /\ same' = IF Btree_eq(left, right) THEN "true" ELSE "false"
    /\ UNCHANGED <<left, right, treeVars, parseVars, replVars>>

NextEq ==
    \/ \E k \in EqKeys, p \in EqPayloads : InsertLeft(k, p)
    \/ \E k \in EqKeys, p \in EqPayloads : InsertRight(k, p)
    \/ Compare

SpecEq == InitEq /\ [][NextEq]_vars

\* The keys of a root's entries, in order
KeySeq(t) == [i \in 1..Len(t.root.interior_nodes) |-> t.root.interior_nodes[i].key]

EntriesOf(t) == {t.root.interior_nodes[i] : i \in 1..Len(t.root.interior_nodes)}

\* C13: equality and ordering of entries depend on the key alone: two entries
\* are equal, and compare Equal, exactly when their keys are the same,
\* whatever their values and children; and two trees compare equal exactly
\* when their interior_node_count and their sequences of root keys are the
\* same, even when the stored values differ.
C13_KeyAloneDecidesEquality ==
    /\ \A a \in EntriesOf(left), b \in EntriesOf(right) :
           /\ InnerNodeInterior_eq(a, b) <=> a.key = b.key
           /\ InnerNodeInterior_cmp(a, b) = "Equal" <=> a.key = b.key
           /\ InnerNodeInterior_cmp(a, b) = "Less" <=> a.key < b.key
    /\ same # "none"
       => (same = "true"
             <=> /\ left.interior_node_count = right.interior_node_count
                 /\ KeySeq(left) = KeySeq(right))

\* Two trees of two entries each compared equal although a value and the
\* children of an entry differ.
C13_Witness ==
    /\ same = "true"
    /\ Len(left.root.interior_nodes) = 2
    /\ \E i \in 1..2 : left.root.interior_nodes[i].value # right.root.interior_nodes[i].value
    /\ \E i \in 1..2 :
           left.root.interior_nodes[i].children # right.root.interior_nodes[i].children

=============================================================================
